---- MODULE Spec2Model ----
(***************************************************************************)
(* The media storage backends of backend/src/media/backends:               *)
(* FilesystemBackend (files under an upload directory) and S3Backend       *)
(* (objects in a bucket of an S3-compatible store).                        *)
(*                                                                         *)
(* An identifier (uuid) is a string; it is modelled as the sequence of its *)
(* "/"-separated segments.  A file path is modelled in the normal form     *)
(* path.join produces, relative to the configured upload directory:        *)
(* [up |-> k, segs |-> s] is k levels above the upload directory and then  *)
(* down through the names of s.  The upload directory is assumed to lie    *)
(* deeper than MaxIdLen levels below the file system's root, and no name   *)
(* of Names is the upload directory's own name.                            *)
(***************************************************************************)
EXTENDS Naturals, Sequences, FiniteSets

\* Longest identifier, in segments.
MaxIdLen == 2

Names == {"a", "b"}
Segs == Names \cup {".", ".."}
Contents == {"c1", "c2"}
Callers == {1, 2}

\* The content of a position that holds no file, and what a failed write
\* may leave behind (no cleanup is done after a failed write).
NoFile == "none"
Partial == "partial"

SeqsUpTo(S, n) == UNION {[1..k -> S] : k \in 1..n}

\* The identifiers of one segment, and the identifiers the callers use:
\* those and the longer ones made of one name, "." and "..".
ShortIds == {<<s>> : s \in Segs}
PlainIds == {<<n>> : n \in Names}
Ids == ShortIds \cup SeqsUpTo({"a", ".", ".."}, MaxIdLen)

BackendType == {"filesystem", "s3"}
EndPoints == {[protocol |-> "https:", port |-> ""],
              [protocol |-> "http:", port |-> "9000"]}

VARIABLES
  use,        \* mediaConfig.backend.use
  config,     \* S3Backend.config
  client,     \* S3Backend.client
  dirExists,  \* the upload directory exists on disk
  files,      \* the regular files on disk, by normalised path
  objects,    \* the objects of the configured bucket, by key
  calls       \* per caller: the invocation it is in, or its last one

vars == <<use, config, client, dirExists, files, objects, calls>>

(***************************************************************************)
(* Paths                                                                   *)
(***************************************************************************)
uploadDirectory == [up |-> 0, segs |-> <<>>]

RECURSIVE normalize(_, _)
normalize(path, rest) ==
  IF rest = <<>> THEN path
  ELSE IF Head(rest) = "." THEN normalize(path, Tail(rest))
  ELSE IF Head(rest) = ".." THEN
    IF path.segs # <<>>
    THEN normalize([path EXCEPT !.segs = SubSeq(path.segs, 1, Len(path.segs) - 1)],
                   Tail(rest))
    ELSE normalize([path EXCEPT !.up = path.up + 1], Tail(rest))
  ELSE normalize([path EXCEPT !.segs = Append(path.segs, Head(rest))], Tail(rest))

\* path.join(a, b): concatenation followed by normalisation.
join(dir, fileName) == normalize(dir, fileName)

getFilePath(fileName) == join(uploadDirectory, fileName)

\* `/uploads/${uuid}`: the identifier is inserted verbatim.
UploadsUrl(uuid) == <<"/uploads">> \o uuid

\* The positions at which a regular file can exist: directly inside the
\* upload directory or directly inside one of its ancestors.
FilePos == {[up |-> k, segs |-> <<n>>] : k \in 0..(MaxIdLen - 1), n \in Names}

Content(fs, path) == IF path \in FilePos THEN fs[path] ELSE NoFile


(***************************************************************************)
(* The file system calls of Node's fs.promises, as the errno each ends     *)
(* with ("OK": it succeeds).  env is what the environment does to a call   *)
(* that the state of the disk would let succeed.                           *)
(***************************************************************************)
\* Resolving path down to the position it names.
pathErrno(path) ==
  IF path.up = 0 /\ ~dirExists THEN "ENOENT"
  ELSE IF path.segs = <<>> THEN "EISDIR"
  ELSE IF Len(path.segs) > 1 THEN
    IF Content(files, [path EXCEPT !.segs = <<Head(path.segs)>>]) # NoFile
    THEN "ENOTDIR" ELSE "ENOENT"
  ELSE "OK"

accessErrno(env) == IF ~dirExists THEN "ENOENT" ELSE env

mkdirErrno(env) == IF dirExists THEN "EEXIST" ELSE env

\* writeFile with flag 'wx': an existing file is an error.
writeFileErrnoExclusive(path, env) ==
  IF pathErrno(path) # "OK" THEN pathErrno(path)
  ELSE IF files[path] # NoFile THEN "EEXIST"
  ELSE env

writeFileErrno(path, env) == IF pathErrno(path) # "OK" THEN pathErrno(path) ELSE env

\* A removal that does not mind a missing file (rm with force).
unlinkErrnoForce(path, env) == IF pathErrno(path) # "OK" THEN pathErrno(path) ELSE env

unlinkErrno(path, env) ==
  IF pathErrno(path) # "OK" THEN pathErrno(path)
  ELSE IF files[path] = NoFile THEN "ENOENT"
  ELSE env

\* A write that is reported as done but never reaches the disk.
writeFileDropped(path, buffer) == files

\* writeFile with flag 'w': the file is created or truncated, then written.
writeFile(path, buffer) == [files EXCEPT ![path] = buffer]

unlink(path) == [files EXCEPT ![path] = NoFile]

(***************************************************************************)
(* Invocations                                                             *)
(***************************************************************************)
\* What the caller of an invocation observes: it is still running
\* ("pending"), it returned ("ok"), or the kind of error it threw.
Idle == [op |-> "idle", id |-> <<>>, buf |-> NoFile, filePath |-> uploadDirectory,
         pc |-> "idle", result |-> "none", url |-> <<>>,
         io |-> <<>>, logged |-> <<>>, before |-> NoFile]

Free(p) == calls[p].pc \in {"idle", "done"}

\* An invocation starts: io collects the underlying calls it makes,
\* logged what it hands to logger.error, before the content of its
\* location as the invocation starts.
Invoke(op, uuid, buffer, path, pc, before) ==
  [Idle EXCEPT !.op = op, !.id = uuid, !.buf = buffer, !.filePath = path,
               !.pc = pc, !.result = "pending", !.before = before]

Called(c, name, e) == [c EXCEPT !.io = Append(c.io, [call |-> name, err |-> e])]

Returned(c) == [c EXCEPT !.pc = "done", !.result = "ok"]

Threw(c, e, kind) ==
  [c EXCEPT !.pc = "done", !.result = kind, !.logged = Append(c.logged, e)]

(***************************************************************************)
(* FilesystemBackend                                                       *)
(***************************************************************************)
\* A catch block that throws the caught error on as it is.
deleteFileRethrow(e) == e

\* The catch blocks: what is thrown to the caller for the error e caught.
saveFileCatch(e) == "MediaBackendError"
deleteFileCatch(e) == "MediaBackendError"
ensureDirectoryCatch(e) == "MediaBackendError"

\* saveFile up to ensureDirectory's fs.access.
FsSaveFile(p, uuid, buffer) ==
  /\ Free(p)
  /\ calls' = [calls EXCEPT ![p] =
       Invoke("fs.saveFile", uuid, buffer, getFilePath(uuid), "access",
              Content(files, getFilePath(uuid)))]
  /\ UNCHANGED <<use, config, client, dirExists, files, objects>>

\* An ensureDirectory that creates the directory without looking first.
afterAccessAlwaysMkdir(e) == "mkdir"

\* Where ensureDirectory goes after fs.access ended with e.
afterAccess(e) == IF e = "OK" THEN "writeFile" ELSE "mkdir"

\* ensureDirectory: fs.access completes.
FsAccess(p) ==
  /\ calls[p].pc = "access"
  /\ \E env \in {"OK", "EACCES"} :
       LET e == accessErrno(env) IN
       calls' = [calls EXCEPT ![p] =
         [Called(calls[p], "access", e) EXCEPT !.pc = afterAccess(e)]]
  /\ UNCHANGED <<use, config, client, dirExists, files, objects>>

\* An inner catch block that only logs.
ensureDirectorySwallows(e) == FALSE

\* Whether ensureDirectory's inner catch block throws for the outcome e of
\* fs.mkdir.
ensureDirectoryThrows(e) == e # "OK"

\* ensureDirectory: fs.mkdir completes; its failure is thrown out of
\* saveFile, whose try block starts after ensureDirectory.
FsMkdir(p) ==
  /\ calls[p].pc = "mkdir"
  /\ \E env \in {"OK", "EACCES"} :
       LET e == mkdirErrno(env)
           c == Called(calls[p], "mkdir", e) IN
       /\ dirExists' = (dirExists \/ e = "OK")
       /\ calls' = [calls EXCEPT ![p] =
            IF ensureDirectoryThrows(e)
            THEN Threw(c, e, ensureDirectoryCatch(e))
            ELSE [c EXCEPT !.pc = "writeFile"]]
  /\ UNCHANGED <<use, config, client, files, objects>>

\* saveFile: fs.writeFile completes.  A write that runs out of space may
\* leave the file truncated or partly written.
FsWriteFile(p) ==
  /\ calls[p].pc = "writeFile"
  /\ \E env \in {"OK", "ENOSPC"} :
       LET e == writeFileErrno(calls[p].filePath, env)
           c == Called(calls[p], "writeFile", e) IN
       IF e = "OK"
       THEN /\ files' = writeFile(calls[p].filePath, calls[p].buf)
            /\ calls' = [calls EXCEPT ![p] = Returned(c)]
       ELSE /\ files' \in {files} \cup
                 (IF e = "ENOSPC" THEN {writeFile(calls[p].filePath, Partial)} ELSE {})
            /\ calls' = [calls EXCEPT ![p] = Threw(c, e, saveFileCatch(e))]
  /\ UNCHANGED <<use, config, client, dirExists, objects>>

\* deleteFile up to fs.unlink.
FsDeleteFile(p, uuid) ==
  /\ Free(p)
  /\ calls' = [calls EXCEPT ![p] =
       Invoke("fs.deleteFile", uuid, NoFile, getFilePath(uuid), "unlink",
              Content(files, getFilePath(uuid)))]
  /\ UNCHANGED <<use, config, client, dirExists, files, objects>>

\* deleteFile: fs.unlink completes.
FsUnlink(p) ==
  /\ calls[p].pc = "unlink"
  /\ \E env \in {"OK", "EACCES"} :
       LET e == unlinkErrno(calls[p].filePath, env)
           c == Called(calls[p], "unlink", e) IN
       IF e = "OK"
       THEN /\ files' = unlink(calls[p].filePath)
            /\ calls' = [calls EXCEPT ![p] = Returned(c)]
       ELSE /\ files' = files
            /\ calls' = [calls EXCEPT ![p] = Threw(c, e, deleteFileCatch(e))]
  /\ UNCHANGED <<use, config, client, dirExists, objects>>

\* A URL built from the joined file path instead of the identifier.
getFileUrlJoined(uuid) == <<"/uploads">> \o getFilePath(uuid).segs

\* The underlying calls getFileUrl makes before it resolves.
getFileUrlIo(uuid) == <<>>

getFileUrl(uuid) == UploadsUrl(uuid)

FsGetFileUrl(p, uuid) ==
  /\ Free(p)
  /\ calls' = [calls EXCEPT ![p] =
       [Returned(Invoke("fs.getFileUrl", uuid, NoFile, uploadDirectory, "done", NoFile))
          EXCEPT !.url = getFileUrl(uuid), !.io = getFileUrlIo(uuid)]]
  /\ UNCHANGED <<use, config, client, dirExists, files, objects>>

(***************************************************************************)
(* S3Backend                                                               *)
(***************************************************************************)
Undefined == [defined |-> FALSE, bucket |-> "", useSSL |-> FALSE]

\* The constructor returns early unless configuration selects S3.
constructorConfig(backendUse) ==
  IF backendUse # "s3" THEN Undefined
  ELSE [defined |-> TRUE, bucket |-> "bucket", useSSL |-> FALSE]

constructorClient(backendUse, url) ==
  IF backendUse # "s3" THEN Undefined
  ELSE [defined |-> TRUE, bucket |-> "", useSSL |-> (url.protocol = "https:")]

\* The client call made outside the try block.
s3SaveFileRethrow(e) == e

s3SaveFileCatch(e) == "MediaBackendError"
s3DeleteFileCatch(e) == "MediaBackendError"
s3GetFileUrlCatch(e) == "MediaBackendError"

\* Evaluating this.client.<method>(this.config.bucket, ...), inside the
\* try block: a TypeError when client is undefined, else the request is
\* issued.
memberErrno(c) == IF c.defined THEN "OK" ELSE "TypeError"

S3SaveFile(p, uuid, buffer) ==
  /\ Free(p)
  /\ LET c == Invoke("s3.saveFile", uuid, buffer, uploadDirectory, "putObject",
                     objects[uuid])
         e == memberErrno(client) IN
     calls' = [calls EXCEPT ![p] =
       IF e = "OK" THEN c ELSE Threw(c, e, s3SaveFileCatch(e))]
  /\ UNCHANGED <<use, config, client, dirExists, files, objects>>

\* saveFile: client.putObject completes.
S3PutObject(p) ==
  /\ calls[p].pc = "putObject"
  /\ \E e \in {"OK", "NetworkError"} :
       LET c == Called(calls[p], "putObject", e) IN
       IF e = "OK"
       THEN /\ objects' = [objects EXCEPT ![calls[p].id] = calls[p].buf]
            /\ calls' = [calls EXCEPT ![p] = Returned(c)]
       ELSE /\ objects' = objects
            /\ calls' = [calls EXCEPT ![p] = Threw(c, e, s3SaveFileCatch(e))]
  /\ UNCHANGED <<use, config, client, dirExists, files>>

S3DeleteFile(p, uuid) ==
  /\ Free(p)
  /\ LET c == Invoke("s3.deleteFile", uuid, NoFile, uploadDirectory, "removeObject",
                     objects[uuid])
         e == memberErrno(client) IN
     calls' = [calls EXCEPT ![p] =
       IF e = "OK" THEN c ELSE Threw(c, e, s3DeleteFileCatch(e))]
  /\ UNCHANGED <<use, config, client, dirExists, files, objects>>

\* deleteFile: client.removeObject completes; the store answers the
\* removal of a key it does not hold like that of one it holds.
S3RemoveObject(p) ==
  /\ calls[p].pc = "removeObject"
  /\ \E e \in {"OK", "NetworkError"} :
       LET c == Called(calls[p], "removeObject", e) IN
       IF e = "OK"
       THEN /\ objects' = [objects EXCEPT ![calls[p].id] = NoFile]
            /\ calls' = [calls EXCEPT ![p] = Returned(c)]
       ELSE /\ objects' = objects
            /\ calls' = [calls EXCEPT ![p] = Threw(c, e, s3DeleteFileCatch(e))]
  /\ UNCHANGED <<use, config, client, dirExists, files>>

S3GetFileUrl(p, uuid) ==
  /\ Free(p)
  /\ LET c == Invoke("s3.getFileUrl", uuid, NoFile, uploadDirectory,
                     "presignedGetObject", objects[uuid])
         e == memberErrno(client) IN
     calls' = [calls EXCEPT ![p] =
       IF e = "OK" THEN c ELSE Threw(c, e, s3GetFileUrlCatch(e))]
  /\ UNCHANGED <<use, config, client, dirExists, files, objects>>

\* getFileUrl: client.presignedGetObject completes.
S3PresignedGetObject(p) ==
  /\ calls[p].pc = "presignedGetObject"
  /\ \E e \in {"OK", "NetworkError"} :
       LET c == Called(calls[p], "presignedGetObject", e) IN
       calls' = [calls EXCEPT ![p] =
         IF e = "OK"
         THEN [Returned(c) EXCEPT !.url = <<"presigned", config.bucket>> \o calls[p].id]
         ELSE Threw(c, e, s3GetFileUrlCatch(e))]
  /\ UNCHANGED <<use, config, client, dirExists, files, objects>>

(***************************************************************************)
(* Specifications                                                          *)
(***************************************************************************)
Init ==
  /\ use \in BackendType
  /\ config = constructorConfig(use)
  /\ \E url \in EndPoints : client = constructorClient(use, url)
  /\ dirExists \in BOOLEAN
  /\ files = [f \in FilePos |-> NoFile]
  /\ objects = [k \in ShortIds |-> NoFile]
  /\ calls = [p \in Callers |-> Idle]

\* One caller that awaits each invocation before it starts the next.  The
\* filesystem backend is invoked when configuration selects it; the S3
\* backend is also invoked while it is not the selected one.
Next ==
  \/ use = "filesystem" /\ \E uuid \in Ids, buffer \in Contents : FsSaveFile(1, uuid, buffer)
  \/ FsAccess(1)
  \/ FsMkdir(1)
  \/ FsWriteFile(1)
  \/ use = "filesystem" /\ \E uuid \in Ids : FsDeleteFile(1, uuid)
  \/ FsUnlink(1)
  \/ use = "filesystem" /\ \E uuid \in Ids : FsGetFileUrl(1, uuid)
  \/ \E uuid \in ShortIds, buffer \in Contents : S3SaveFile(1, uuid, buffer)
  \/ S3PutObject(1)
  \/ \E uuid \in ShortIds : S3DeleteFile(1, uuid)
  \/ S3RemoveObject(1)
  \/ \E uuid \in ShortIds : S3GetFileUrl(1, uuid)
  \/ S3PresignedGetObject(1)

Spec == Init /\ [][Next]_vars

\* Callers of the filesystem backend that do not wait for one another; they
\* use plain file names as identifiers.
InitConc == Init /\ use = "filesystem"

NextConc ==
  \E p \in Callers :
    \/ \E uuid \in PlainIds, buffer \in Contents : FsSaveFile(p, uuid, buffer)
    \/ FsAccess(p)
    \/ FsMkdir(p)
    \/ FsWriteFile(p)
    \/ \E uuid \in PlainIds : FsDeleteFile(p, uuid)
    \/ FsUnlink(p)
    \/ \E uuid \in PlainIds : FsGetFileUrl(p, uuid)

SpecConc == InitConc /\ [][NextConc]_vars

(***************************************************************************)
(* Properties                                                              *)
(***************************************************************************)
TypeOK ==
  /\ use \in BackendType
  /\ dirExists \in BOOLEAN
  /\ files \in [FilePos -> Contents \cup {NoFile, Partial}]
  /\ objects \in [ShortIds -> Contents \cup {NoFile}]
  /\ \A f \in FilePos : (f.up = 0 /\ ~dirExists) => files[f] = NoFile
  /\ \A p \in Callers : calls[p].pc = "writeFile" => dirExists

Done(c) == c.pc = "done"

\* What the environment made fail, as opposed to what the state of the
\* store or of the backend makes fail.
EnvFaults == {"EACCES", "ENOSPC", "NetworkError"}
NoEnvFault(c) == \A i \in DOMAIN c.io : c.io[i].err \notin EnvFaults

Made(c, name) == \E i \in DOMAIN c.io : c.io[i].call = name
Failed(c, name) == \E i \in DOMAIN c.io : c.io[i].call = name /\ c.io[i].err # "OK"

\* The content stored for identifier id by the filesystem backend.
Stored(fs, id) == Content(fs, getFilePath(id))

\* C1: when saveFile(id, c) has returned and nothing was invoked since, the
\* file at the path of id, respectively the object with key id, holds
\* exactly c.
RoundTrip ==
  \A p \in Callers : LET c == calls[p] IN
    (Done(c) /\ c.result = "ok") =>
      /\ c.op = "fs.saveFile" => Stored(files, c.id) = c.buf
      /\ c.op = "s3.saveFile" => objects[c.id] = c.buf

RoundTripWitness ==
  LET c == calls[1] IN
    /\ Done(c) /\ c.op = "fs.saveFile" /\ c.result = "ok"
    /\ Made(c, "mkdir") /\ c.id = <<"a">> /\ files[getFilePath(c.id)] = "c2"

\* C2: a saveFile(id, c2) that finds the content of an earlier successful
\* save at id fails only if the environment makes one of its calls fail,
\* never because something is stored at id; when it returns, exactly c2
\* is stored at id.
Overwrite ==
  \A p \in Callers : LET c == calls[p] IN
    (Done(c) /\ c.before \in Contents) =>
      /\ c.op = "fs.saveFile" =>
           /\ NoEnvFault(c) => c.result = "ok"
           /\ c.result = "ok" => Stored(files, c.id) = c.buf
      /\ (c.op = "s3.saveFile" /\ client.defined) =>
           /\ NoEnvFault(c) => c.result = "ok"
           /\ c.result = "ok" => objects[c.id] = c.buf

OverwriteWitness ==
  LET c == calls[1] IN
    /\ Done(c) /\ c.op = "fs.saveFile" /\ c.result = "ok"
    /\ c.before = "c1" /\ c.buf = "c2" /\ Stored(files, c.id) = "c2"

\* C3: after deleteFile(id) has returned, no file exists at the path of id;
\* a deleteFile(id) that finds no file at the path of id fails with
\* MediaBackendError, and its unlink leaves all files as they are.
DeleteStates ==
  \A p \in Callers : LET c == calls[p] IN
    (Done(c) /\ c.op = "fs.deleteFile") =>
      /\ c.result = "ok" => Stored(files, c.id) = NoFile
      /\ c.before = NoFile => c.result = "MediaBackendError"

DeleteThenRead ==
  /\ []DeleteStates
  /\ [][(calls[1].pc = "unlink" /\ calls[1].before = NoFile) => files' = files]_vars

DeleteThenReadWitness ==
  LET c == calls[1] IN
    /\ Done(c) /\ c.op = "fs.deleteFile" /\ c.result = "MediaBackendError"
    /\ c.before = NoFile /\ c.io = <<[call |-> "unlink", err |-> "ENOENT"]>>
    /\ dirExists /\ \E f \in FilePos : files[f] \in Contents

\* C4: a saveFile whose existence check found no upload directory, and whose
\* creation step then found the directory created by another call, does not
\* fail.
BenignDirectoryRace ==
  \A p \in Callers : LET c == calls[p] IN
    ~(/\ Done(c) /\ c.op = "fs.saveFile" /\ c.result = "MediaBackendError"
      /\ c.io = <<[call |-> "access", err |-> "ENOENT"],
                  [call |-> "mkdir", err |-> "EEXIST"]>>)

\* C5: with one caller and no call made to fail by the environment, a
\* saveFile of a file name that finds no upload directory creates it and
\* returns with the file in it; the directory then stays, and a saveFile that
\* finds the directory does not try to create it, logs no directory-exists
\* error, and returns as well.
FileTarget(id) == Len(getFilePath(id).segs) = 1

BootstrapStates ==
  LET c == calls[1] IN
    (Done(c) /\ c.op = "fs.saveFile" /\ NoEnvFault(c)) =>
      /\ FileTarget(c.id) =>
           /\ c.result = "ok"
           /\ dirExists
           /\ Stored(files, c.id) = c.buf
      /\ c.io[1].err = "ENOENT" => (Made(c, "mkdir") /\ dirExists)
      /\ c.io[1].err = "OK" =>
           (~Made(c, "mkdir") /\ \A i \in DOMAIN c.logged : c.logged[i] # "EEXIST")

DirectoryBootstrap ==
  /\ []BootstrapStates
  /\ [][dirExists => dirExists']_vars

DirectoryBootstrapWitness ==
  LET c == calls[1] IN
    /\ Done(c) /\ c.op = "fs.saveFile" /\ c.result = "ok"
    /\ c.io = <<[call |-> "access", err |-> "ENOENT"], [call |-> "mkdir", err |-> "OK"],
                [call |-> "writeFile", err |-> "OK"]>>
    /\ dirExists /\ Stored(files, c.id) = c.buf

\* C6: the caller of any operation of either backend observes a return or a
\* MediaBackendError and nothing else; an invocation whose last underlying
\* call failed throws MediaBackendError; and no invocation makes the same
\* underlying call twice.
SingleErrorKind ==
  \A p \in Callers : LET c == calls[p] IN
    /\ Done(c) =>
         /\ c.result \in {"ok", "MediaBackendError"}
         /\ (c.io # <<>> /\ c.io[Len(c.io)].err # "OK") => c.result = "MediaBackendError"
         /\ c.result = "MediaBackendError" => c.logged # <<>>
    /\ \A i, j \in DOMAIN c.io : i # j => c.io[i].call # c.io[j].call

SingleErrorKindWitness ==
  LET c == calls[1] IN
    /\ Done(c) /\ c.op = "fs.deleteFile" /\ c.result = "MediaBackendError"
    /\ c.io = <<[call |-> "unlink", err |-> "EACCES"]>>

\* C7: a saveFile whose directory creation failed throws MediaBackendError
\* without having called writeFile, and the file at the path of its
\* identifier is as it was when the saveFile started.
MkdirFailureAborts ==
  LET c == calls[1] IN
    (Done(c) /\ c.op = "fs.saveFile" /\ Failed(c, "mkdir")) =>
      /\ c.result = "MediaBackendError"
      /\ ~Made(c, "writeFile")
      /\ Stored(files, c.id) = c.before

MkdirFailureAbortsWitness ==
  LET c == calls[1] IN
    /\ Done(c) /\ c.op = "fs.saveFile" /\ Failed(c, "mkdir")
    /\ c.before = "c1" /\ c.buf = "c2"

\* C8: the filesystem getFileUrl(id) returns "/uploads/" followed by id as
\* given, in every state of the store, makes no underlying call, and leaves
\* the upload directory and the files as they are.
UrlStates ==
  \A p \in Callers : LET c == calls[p] IN
    (Done(c) /\ c.op = "fs.getFileUrl") =>
      /\ c.result = "ok"
      /\ c.url = <<"/uploads">> \o c.id
      /\ c.io = <<>>

FilesystemUrlShape ==
  /\ []UrlStates
  /\ [][(calls'[1].op = "fs.getFileUrl" /\ calls'[1] # calls[1])
          => (dirExists' = dirExists /\ files' = files)]_vars

FilesystemUrlShapeWitness ==
  LET c == calls[1] IN
    /\ Done(c) /\ c.op = "fs.getFileUrl" /\ c.id = <<".", "a">>
    /\ c.url = <<"/uploads", ".", "a">> /\ ~dirExists

\* C9: an S3 backend constructed while configuration selects the filesystem
\* backend has neither client nor configuration; each of its operations,
\* when invoked, throws MediaBackendError and no request reaches the store.
InactiveBackendIsolation ==
  use = "filesystem" =>
    /\ ~client.defined /\ ~config.defined
    /\ \A k \in ShortIds : objects[k] = NoFile
    /\ \A p \in Callers : LET c == calls[p] IN
         (Done(c) /\ c.op \in {"s3.saveFile", "s3.deleteFile", "s3.getFileUrl"}) =>
           (c.result = "MediaBackendError" /\ c.io = <<>>)
    /\ \A p \in Callers :
         calls[p].pc \notin {"putObject", "removeObject", "presignedGetObject"}

InactiveBackendIsolationWitness ==
  LET c == calls[1] IN
    /\ use = "filesystem" /\ Done(c) /\ c.op = "s3.saveFile"
    /\ c.result = "MediaBackendError" /\ c.logged = <<"TypeError">>

\* C10: a step of saveFile(id1, c) or deleteFile(id1) leaves the file stored
\* for every other identifier id2 as it is, and every identifier is stored
\* directly inside the upload directory.
PerIdentifierIsolation ==
  [][\A id2 \in Ids :
       (calls[1].op \in {"fs.saveFile", "fs.deleteFile"} /\ calls[1].id # id2)
         => Stored(files', id2) = Stored(files, id2)]_vars

====
